---- MODULE Spec2Model ----
(***************************************************************************)
(* WooCommerce webhook receiver: signature middleware, payload store,      *)
(* order upsert store and admin endpoints of src/src/server.ts, together   *)
(* with the earlier revision of the receiver kept in src/unnamed/part_000. *)
(***************************************************************************)
EXTENDS Integers, Sequences, FiniteSets, TLC

(***************************************************************************)
(* Bounds of the model.                                                    *)
(***************************************************************************)
\* number of distinct instants a date_modified string can denote
MaxDate == 3
\* number of millisecond ticks of the wall clock after start-up
MaxClock == 1

(***************************************************************************)
(* Values.  Every value of one sort is a record with the same fields, so   *)
(* that any two of them can be compared.                                   *)
(***************************************************************************)
\* the two webhook routes
WebhookTypes == {"order-created", "order-updated"}

\* request slots
Reqs == {"r1", "r2"}

\* order.number of a body that has no number field
NoNumber == "<none>"
Numbers == {"1001", "1002"}

\* date_modified strings: 0 is a missing or unparseable date, k in
\* 1..MaxDate is the UTC spelling of instant k and MaxDate + 1 is another
\* spelling (with a zone offset) of the instant MaxDate
NoDate == 0
DateStrings == 0..(MaxDate + 1)

\* new Date(s).valueOf(): NaN is represented by -1
NaN == -1
DateParse(s) ==
  IF s = NoDate THEN NaN ELSE IF s = MaxDate + 1 THEN MaxDate ELSE s

\* a <= b on Date objects: false as soon as one side is NaN
DateLE(a, b) == a # NaN /\ b # NaN /\ a <= b

\* parsed JSON values (req.body, payload, order)
Undefined == [kind |-> "undefined", number |-> NoNumber, date_modified |-> NoDate]
EmptyObj == [kind |-> "object", number |-> NoNumber, date_modified |-> NoDate]
RawContentEnvelope == [kind |-> "rawContent", number |-> NoNumber, date_modified |-> NoDate]
Order(n, d) == [kind |-> "object", number |-> n, date_modified |-> d]
Orders == {Order(n, d) : n \in Numbers, d \in DateStrings}
JsonValues == Orders \cup {EmptyObj}

\* texts: request bodies on the wire and file contents.  fmt tells how the
\* value is spelled: "canon" is the output of JSON.stringify(v), "alt" is a
\* different spelling of the same value of the same length (an exponent E
\* for e, an upper-case hex digit in a \u escape), "pretty" is the output of
\* JSON.stringify(v, null, 2), "empty" is the empty string, "garbage" is a
\* text that is not JSON, "truncated" a file cut short by a failed write and
\* "absent" stands for a file that does not exist
Text(v, f) == [json |-> v, fmt |-> f]
EmptyRaw == Text(Undefined, "empty")
Garbage == Text(Undefined, "garbage")
Truncated == Text(Undefined, "truncated")
Absent == Text(Undefined, "absent")

\* JSON.parse succeeds on the text
Parses(t) == t.fmt \in {"canon", "alt", "pretty"}
\* JSON.parse(t) when it succeeds
JSONparse(t) == t.json
\* JSON.stringify(v) for a defined v (for undefined it returns undefined)
JSONstringify(v) == Text(v, "canon")
\* JSON.stringify(v, null, 2)
JSONstringifyPretty(v) == Text(v, "pretty")

\* two request bodies that differ in exactly one bit: the two spellings of
\* one value (e / E), two dates that differ in one digit, or a body and the
\* non-JSON text a flipped bit of its syntax gives
OneBit(a, b) ==
  /\ a # b
  /\ \/ /\ Parses(a) /\ Parses(b) /\ a.json = b.json
     \/ /\ Parses(a) /\ Parses(b) /\ a.fmt = b.fmt
        /\ a.json.number = b.json.number
        /\ a.json.date_modified # b.json.date_modified
     \/ /\ Parses(a) /\ b = Garbage
     \/ /\ a = Garbage /\ Parses(b)

\* crypto.createHmac('sha256', key).update(msg).digest('base64'): an
\* injective function of the key and of the message
Hmac(key, msg) == [kind |-> "mac", key |-> key, msg |-> msg]
\* req.headers['x-wc-webhook-signature'] when the header is not sent, and
\* when it is sent with an empty value
NoSig == [kind |-> "none", key |-> "", msg |-> EmptyRaw]
EmptySig == [kind |-> "empty", key |-> "", msg |-> EmptyRaw]

\* process.env values
Unset == "<unset>"
DefaultSecret == "default_secret_replace_me"
\* a || b on strings
OrElse(a, b) == IF a = Unset \/ a = "" THEN b ELSE a

(***************************************************************************)
(* Configuration read from the environment at start-up.                    *)
(***************************************************************************)
\* server.ts: the secret of each webhook type
WEBHOOK_SECRETS(e) ==
  [t \in WebhookTypes |->
     IF t = "order-created"
     THEN OrElse(e.WC_ORDER_CREATED_SECRET, DefaultSecret)
     ELSE OrElse(e.WC_ORDER_UPDATED_SECRET, DefaultSecret)]

\* part_000: the secret of each webhook type
WEBHOOK_SECRETS_part_000(e) ==
  [t \in WebhookTypes |->
     IF t = "order-created"
     THEN OrElse(e.WC_ORDER_CREATED_SECRET, "")
     ELSE OrElse(e.WC_ORDER_UPDATED_SECRET, "")]

\* a server that ignores the bypass flag
SKIP_SIGNATURE_VALIDATION_never(e) == FALSE

\* server.ts: process.env.SKIP_SIGNATURE_VALIDATION === 'true'
SKIP_SIGNATURE_VALIDATION(e) == e.SKIP_SIGNATURE_VALIDATION = "true"

(***************************************************************************)
(* The signature middleware.  q is the request: q.sig the signature        *)
(* header, q.rawBody the captured raw body, q.body the parsed body.  The   *)
(* result tells what the middleware did (act), through which branch, the   *)
(* digest it computed (NoSig when it computed none) and whether the digest *)
(* was taken over the raw body.                                            *)
(***************************************************************************)
MwResult(act, branch, calc, usedRaw) ==
  [act |-> act, branch |-> branch, calc |-> calc, usedRaw |-> usedRaw]
NoMw == MwResult("none", "none", NoSig, FALSE)

\* !signature
SignatureMissing(sig) == sig.kind \in {"none", "empty"}
\* if (rawBody)
RawBodyAvailable(raw) == raw.fmt # "empty"

\* server.ts: the text the digest is computed over (lines 178-187)
DigestInput(q) ==
  IF RawBodyAvailable(q.rawBody) THEN q.rawBody ELSE JSONstringify(q.body)

\* a middleware without the check for a missing signature
validateWebhookSignature_unchecked(webhookType, e, q) ==
  LET secret == WEBHOOK_SECRETS(e)[webhookType]
      calculatedSignature == Hmac(secret, DigestInput(q))
  IN  IF SKIP_SIGNATURE_VALIDATION(e)
      THEN MwResult("next", "skip", NoSig, FALSE)
      ELSE IF secret = ""
      THEN MwResult("next", "nosecret", NoSig, FALSE)
      ELSE IF ~RawBodyAvailable(q.rawBody) /\ q.body = Undefined
      THEN MwResult("next", "error", NoSig, FALSE)
      ELSE IF q.sig = calculatedSignature
      THEN MwResult("next", "valid", calculatedSignature,
                    RawBodyAvailable(q.rawBody))
      ELSE MwResult("next", "mismatch", calculatedSignature,
                    RawBodyAvailable(q.rawBody))

\* a middleware that rejects a signature mismatch
validateWebhookSignature_enforcing(webhookType, e, q) ==
  LET secret == WEBHOOK_SECRETS(e)[webhookType]
      calculatedSignature == Hmac(secret, DigestInput(q))
  IN  IF SKIP_SIGNATURE_VALIDATION(e)
      THEN MwResult("next", "skip", NoSig, FALSE)
      ELSE IF secret = ""
      THEN MwResult("next", "nosecret", NoSig, FALSE)
      ELSE IF SignatureMissing(q.sig)
      THEN MwResult("401", "missing", NoSig, FALSE)
      ELSE IF ~RawBodyAvailable(q.rawBody) /\ q.body = Undefined
      THEN MwResult("next", "error", NoSig, FALSE)
      ELSE IF q.sig = calculatedSignature
      THEN MwResult("next", "valid", calculatedSignature,
                    RawBodyAvailable(q.rawBody))
      ELSE MwResult("401", "mismatch", calculatedSignature,
                    RawBodyAvailable(q.rawBody))

\* server.ts
validateWebhookSignature(webhookType, e, q) ==
  LET secret == WEBHOOK_SECRETS(e)[webhookType]
      calculatedSignature == Hmac(secret, DigestInput(q))
  IN  IF SKIP_SIGNATURE_VALIDATION(e)
      THEN MwResult("next", "skip", NoSig, FALSE)
      ELSE IF secret = ""
      THEN MwResult("next", "nosecret", NoSig, FALSE)
      ELSE IF SignatureMissing(q.sig)
      THEN MwResult("401", "missing", NoSig, FALSE)
      ELSE IF ~RawBodyAvailable(q.rawBody) /\ q.body = Undefined
      \* hmac.update(undefined) throws; the catch block continues
      THEN MwResult("next", "error", NoSig, FALSE)
      ELSE IF q.sig = calculatedSignature
      THEN MwResult("next", "valid", calculatedSignature,
                    RawBodyAvailable(q.rawBody))
      ELSE MwResult("next", "mismatch", calculatedSignature,
                    RawBodyAvailable(q.rawBody))

\* a middleware whose catch block neither answers nor continues
validateWebhookSignature_part_000_silent(webhookType, e, q) ==
  LET secret == WEBHOOK_SECRETS_part_000(e)[webhookType]
      digest == Hmac(secret, JSONstringify(q.body))
  IN  IF secret = ""
      THEN MwResult("next", "nosecret", NoSig, FALSE)
      ELSE IF SignatureMissing(q.sig)
      THEN MwResult("401", "missing", NoSig, FALSE)
      ELSE IF q.body = Undefined
      THEN MwResult("none", "error", NoSig, FALSE)
      ELSE IF q.sig = digest
      THEN MwResult("next", "valid", digest, FALSE)
      ELSE MwResult("401", "mismatch", digest, FALSE)

\* part_000
validateWebhookSignature_part_000(webhookType, e, q) ==
  LET secret == WEBHOOK_SECRETS_part_000(e)[webhookType]
      digest == Hmac(secret, JSONstringify(q.body))
  IN  IF secret = ""
      THEN MwResult("next", "nosecret", NoSig, FALSE)
      ELSE IF SignatureMissing(q.sig)
      THEN MwResult("401", "missing", NoSig, FALSE)
      ELSE IF q.body = Undefined
      \* hmac.update(undefined) throws; the catch block answers 500
      THEN MwResult("500", "error", NoSig, FALSE)
      ELSE IF q.sig = digest
      THEN MwResult("next", "valid", digest, FALSE)
      ELSE MwResult("401", "mismatch", digest, FALSE)

(***************************************************************************)
(* express.json(): the possible values of req.body for a request body, and *)
(* whether the parser failed (a body announced as JSON that is not JSON is *)
(* handed to the error middleware).  A body that is not announced as JSON  *)
(* is not parsed: req.body is then {} or left undefined, depending on the  *)
(* version of the parser.                                                  *)
(***************************************************************************)
ExpressJson(raw) ==
  {[ok |-> TRUE, body |-> EmptyObj], [ok |-> TRUE, body |-> Undefined]}
  \cup (IF Parses(raw) THEN {[ok |-> TRUE, body |-> JSONparse(raw)]} ELSE {})
  \cup (IF raw = Garbage THEN {[ok |-> FALSE, body |-> Undefined]} ELSE {})

\* a handler that falls back on the raw body without testing that there is
\* one
HandlerPayload_envelope(q) ==
  IF q.body = Undefined
  THEN IF Parses(q.rawBody) THEN JSONparse(q.rawBody) ELSE RawContentEnvelope
  ELSE q.body

\* server.ts handler: the payload taken from req.body, with the raw body as
\* a fallback (lines 234-246)
HandlerPayload(q) ==
  IF q.body = Undefined /\ RawBodyAvailable(q.rawBody)
  THEN IF Parses(q.rawBody) THEN JSONparse(q.rawBody) ELSE RawContentEnvelope
  ELSE q.body

\* a saveOrder that never skips
SkipsUpdate_never(order, stored) == FALSE

\* a saveOrder that skips when the incoming order is the newer one
SkipsUpdate_reversed(order, stored) ==
  /\ Parses(stored)
  /\ DateLE(DateParse(JSONparse(stored).date_modified),
            DateParse(order.date_modified))

\* a saveOrder that keeps the stored record when the dates cannot be
\* compared
SkipsUpdate_strict(order, stored) ==
  \/ ~Parses(stored)
  \/ DateParse(order.date_modified) = NaN
  \/ /\ Parses(stored)
     /\ \/ DateParse(JSONparse(stored).date_modified) = NaN
        \/ DateLE(DateParse(order.date_modified),
                  DateParse(JSONparse(stored).date_modified))

\* saveOrder: the staleness test of an incoming order against the stored
\* text (lines 114-123); FALSE when the stored text does not parse
SkipsUpdate(order, stored) ==
  /\ Parses(stored)
  /\ DateLE(DateParse(order.date_modified),
            DateParse(JSONparse(stored).date_modified))

(***************************************************************************)
(* File names and paths of the admin endpoints.  A file name parameter is  *)
(* a sequence of tokens: a dot, a slash, a backslash, "x" for any other    *)
(* character, and the three parts of the name the handlers give a payload  *)
(* file.  Paths are those of the POSIX build (node:16-alpine).             *)
(***************************************************************************)
\* longest file name parameter built from single characters, in tokens
MaxLen == 4

Chars == {".", "/", "\\", "x"}

\* `order_created_${fileTimestamp}.json`, `order_updated_${fileTimestamp}.json`
PayloadName(type, ts) ==
  <<IF type = "order-created" THEN "order_created_" ELSE "order_updated_",
    ToString(ts), ".json">>

\* s.includes(pat)
Includes(s, pat) ==
  \E i \in 1..(Len(s) - Len(pat) + 1) : SubSeq(s, i, i + Len(pat) - 1) = pat

\* the traversal guard of the two payload endpoints
\* (filename.includes('../') || filename.includes('..\\'))
GuardRejects(filename) ==
  \/ Includes(filename, <<".", ".", "/">>)
  \/ Includes(filename, <<".", ".", "\\">>)

\* a normalized path relative to PAYLOADS_DIR: up levels above it, then the
\* names below
Path(up, names) == [up |-> up, names |-> names]
NoPath == Path(-1, <<>>)

\* path.normalize at the end of a segment: "" and "." are dropped, ".."
\* removes the last name or climbs one level
CloseSegment(p, cur) ==
  IF cur = <<>> \/ cur = <<".">> THEN p
  ELSE IF cur = <<".", ".">>
  THEN IF p.names # <<>>
       THEN Path(p.up, SubSeq(p.names, 1, Len(p.names) - 1))
       ELSE Path(p.up + 1, <<>>)
  ELSE Path(p.up, Append(p.names, cur))

RECURSIVE Normalize(_, _, _)
Normalize(s, p, cur) ==
  IF s = <<>> THEN CloseSegment(p, cur)
  ELSE IF Head(s) = "/" THEN Normalize(Tail(s), CloseSegment(p, cur), <<>>)
  ELSE Normalize(Tail(s), p, Append(cur, Head(s)))

\* path.join(PAYLOADS_DIR, filename)
PathJoin(filename) == Normalize(filename, Path(0, <<>>), <<>>)

\* the path lies outside PAYLOADS_DIR
Outside(p) == p.up > 0

\* an order number that holds path separators
TraversalNumber == "x/../order_1001"
\* the order numbers a body can carry
AllNumbers == Numbers \cup {NoNumber, TraversalNumber}

\* the tokens of `${orderNumber}`; a missing number prints as "undefined"
NumberTokens(n) ==
  IF n = NoNumber THEN <<"undefined">>
  ELSE IF n = TraversalNumber
  THEN <<"x", "/", ".", ".", "/", "order_", "1001">>
  ELSE <<n>>

\* path.join(ORDERS_DIR, `order_${orderNumber}.json`), relative to ORDERS_DIR
OrderPath(n) ==
  Normalize(<<"order_">> \o NumberTokens(n) \o <<".json">>,
            Path(0, <<>>), <<>>)

\* the files of ORDERS_DIR are named by the k of order_<k>.json
OrderKeys == Numbers \cup {"undefined"}
OrderFileOf ==
  [n \in AllNumbers |->
     CHOOSE k \in OrderKeys : OrderPath(n) = Path(0, <<<<"order_", k, ".json">>>>)]

\* saveOrder: the file of an order number
OrderFile(n) == OrderFileOf[n]
OrderFiles == {OrderFile(n) : n \in Numbers \cup {NoNumber}}

\* the dashboard dereferences billing, shipping, line_items and date_created
\* of a record: the values built by Order stand for complete WooCommerce
\* orders, every other value lacks these fields
Renders(v) == v.kind = "object" /\ v.number # NoNumber

(***************************************************************************)
(* State.                                                                  *)
(***************************************************************************)
VARIABLES
  program,   \* which revision of the receiver runs: "server.ts" or "part_000"
  env,       \* process.env, read once at start-up
  now,       \* the wall clock, in milliseconds since start-up
  payloads,  \* PAYLOADS_DIR: the text of each payload file
  orders,    \* ORDERS_DIR: the text of each order file
  orders0,   \* ORDERS_DIR as it was at start-up
  req,       \* the webhook requests: position in the code and locals
  admin      \* the last GET request answered and its response

vars == <<program, env, now, payloads, orders, orders0, req, admin>>

\* a payload file name: `order_created_${timestamp}.json`
PayloadFiles == [type : WebhookTypes, ts : 0..MaxClock]

\* positions of a request inside saveOrder
SaveOrderPcs == {"access", "readFile", "writeFileOpen", "writeFileData"}

IdleReq ==
  [pc |-> "idle", type |-> "order-created", sig |-> NoSig,
   rawBody |-> EmptyRaw, body |-> Undefined, mw |-> NoMw,
   payload |-> Undefined, ts |-> 0, status |-> 0, responses |-> 0,
   pwrote |-> "none", readErr |-> FALSE, saved |-> "none",
   overlap |-> FALSE]

\* a GET request and its response: the route, its parameter, the fault the
\* file system raised while it was served, the status, the content type,
\* the body and the path that was accessed and read
AdminResponse(route, param, fault, status, ctype, body, path) ==
  [route |-> route, param |-> param, fault |-> fault, status |-> status,
   ctype |-> ctype, body |-> body, path |-> path, listed |-> {}]
NoAdmin == AdminResponse("none", <<>>, "ok", 0, "none", Absent, NoPath)

Envs ==
  [SKIP_SIGNATURE_VALIDATION : {Unset, "true", "false"},
   WC_ORDER_CREATED_SECRET : {Unset, "", "s1"},
   WC_ORDER_UPDATED_SECRET : {Unset, "s1"}]

ProductionEnv ==
  [SKIP_SIGNATURE_VALIDATION |-> Unset,
   WC_ORDER_CREATED_SECRET |-> "s1",
   WC_ORDER_UPDATED_SECRET |-> "s1"]

\* what an order file left by an earlier run can hold
StoredTexts(n) ==
  {Absent, Truncated}
  \cup {JSONstringifyPretty(Order(n, d)) : d \in DateStrings}

\* the receiver of server.ts in production configuration, started on an
\* orders directory that may already hold a record of order 1001
Init ==
  /\ program = "server.ts"
  /\ env = ProductionEnv
  /\ now = 0
  /\ payloads = [f \in PayloadFiles |-> Absent]
  /\ \E t \in StoredTexts("1001") :
       orders = [f \in OrderFiles |-> IF f = "1001" THEN t ELSE Absent]
  /\ orders0 = orders
  /\ req = [r \in Reqs |-> IdleReq]
  /\ admin = NoAdmin

\* either revision under any configuration, started on an orders directory
\* that is empty or holds the first version of order 1001
InitVerify ==
  /\ program \in {"server.ts", "part_000"}
  /\ env \in Envs
  /\ now = 0
  /\ payloads = [f \in PayloadFiles |-> Absent]
  /\ \E t \in {Absent, JSONstringifyPretty(Order("1001", 1))} :
       orders = [f \in OrderFiles |-> IF f = "1001" THEN t ELSE Absent]
  /\ orders0 = orders
  /\ req = [r \in Reqs |-> IdleReq]
  /\ admin = NoAdmin

(***************************************************************************)
(* Actions.                                                                *)
(***************************************************************************)
\* res.status(code).send(...) when the handler or a middleware finishes
Respond(q, code) ==
  [q EXCEPT !.pc = "done", !.status = code, !.responses = @ + 1]

\* request slots are taken in order
SlotFree(r) ==
  /\ req[r].pc = "idle"
  /\ r = "r2" => req["r1"].pc # "idle"

\* a route whose handler runs although the middleware answered 401
Webhook_leaky(r, ms, t, s, raw, out) ==
  /\ program = "server.ts"
  /\ SlotFree(r)
  /\ ms >= now
  /\ now' = ms
  /\ LET q0 == [req[r] EXCEPT !.type = t, !.sig = s, !.rawBody = raw,
                              !.body = out.body]
         m == validateWebhookSignature(t, env, q0)
         q1 == [q0 EXCEPT !.mw = m]
         payload == HandlerPayload(q1)
         q2 == [q1 EXCEPT !.payload = payload, !.ts = ms]
     IN  req' = [req EXCEPT ![r] =
           IF ~out.ok THEN Respond(q0, 500)
           ELSE IF m.act = "401" /\ payload = Undefined THEN Respond(q1, 401)
           ELSE IF m.act = "401"
           THEN [Respond(q2, 401) EXCEPT !.pc = "payloadWrite"]
           ELSE IF payload = Undefined THEN Respond(q2, 200)
           ELSE [q2 EXCEPT !.pc = "payloadWrite"]]
  /\ UNCHANGED <<admin, program, env, payloads, orders, orders0>>

\* server.ts: a POST to /webhooks/woocommerce/<t> with signature header s
\* and body raw, handled when the clock reads ms.  captureRawBody stores
\* the body, express.json() gives out, then the signature middleware and
\* the handler run up to the handler's first await.
Webhook(r, ms, t, s, raw, out) ==
  /\ program = "server.ts"
  /\ SlotFree(r)
  /\ ms >= now
  /\ now' = ms
  /\ LET q0 == [req[r] EXCEPT !.type = t, !.sig = s, !.rawBody = raw,
                              !.body = out.body]
         m == validateWebhookSignature(t, env, q0)
         q1 == [q0 EXCEPT !.mw = m]
         payload == HandlerPayload(q1)
         q2 == [q1 EXCEPT !.payload = payload, !.ts = ms]
     IN  req' = [req EXCEPT ![r] =
           IF ~out.ok THEN Respond(q0, 500)
           ELSE IF m.act = "401" THEN Respond(q1, 401)
           ELSE IF payload = Undefined THEN Respond(q2, 200)
           ELSE [q2 EXCEPT !.pc = "payloadWrite"]]
  /\ UNCHANGED <<admin, program, env, payloads, orders, orders0>>

\* part_000: the same request handled by the earlier revision
Webhook_part_000(r, ms, t, s, raw, out) ==
  /\ program = "part_000"
  /\ SlotFree(r)
  /\ ms >= now
  /\ now' = ms
  /\ LET q0 == [req[r] EXCEPT !.type = t, !.sig = s, !.rawBody = raw,
                              !.body = out.body]
         m == validateWebhookSignature_part_000(t, env, q0)
         q1 == [q0 EXCEPT !.mw = m]
         q2 == [q1 EXCEPT !.payload = out.body, !.ts = ms]
     IN  req' = [req EXCEPT ![r] =
           IF ~out.ok THEN Respond(q0, 500)
           ELSE IF m.act = "401" THEN Respond(q1, 401)
           ELSE IF m.act = "500" THEN Respond(q1, 500)
           \* writeFile(path, undefined) throws at once
           ELSE IF out.body = Undefined THEN Respond(q2, 200)
           ELSE [q2 EXCEPT !.pc = "payloadWrite"]]
  /\ UNCHANGED <<admin, program, env, payloads, orders, orders0>>

\* a handler that calls saveOrder whether or not the payload write succeeded
WritePayload_saveAlways(r, outcome) ==
  /\ req[r].pc = "payloadWrite"
  /\ LET q == req[r]
         f == [type |-> q.type, ts |-> q.ts]
     IN  /\ payloads' =
              IF outcome = "written"
              THEN [payloads EXCEPT ![f] = JSONstringifyPretty(q.payload)]
              ELSE IF outcome = "truncated"
              THEN [payloads EXCEPT ![f] = Truncated]
              ELSE payloads
         /\ req' = [req EXCEPT ![r] =
              [q EXCEPT !.pwrote = IF outcome = "written" THEN "written"
                                   ELSE "failed",
                        !.pc = "access"]]
  /\ UNCHANGED <<admin, program, env, now, orders, orders0>>

\* a handler that answers as soon as the payload file is written and lets
\* saveOrder run on
WritePayload_noAwait(r, outcome) ==
  /\ req[r].pc = "payloadWrite"
  /\ LET q == req[r]
         f == [type |-> q.type, ts |-> q.ts]
     IN  /\ payloads' =
              IF outcome = "written"
              THEN [payloads EXCEPT ![f] = JSONstringifyPretty(q.payload)]
              ELSE IF outcome = "truncated"
              THEN [payloads EXCEPT ![f] = Truncated]
              ELSE payloads
         /\ req' = [req EXCEPT ![r] =
              IF outcome # "written"
              THEN Respond([q EXCEPT !.pwrote = "failed"], 200)
              ELSE [Respond([q EXCEPT !.pwrote = "written"], 200)
                      EXCEPT !.pc = "access"]]
  /\ UNCHANGED <<admin, program, env, now, orders, orders0>>

\* the handler's writeFileAsync of the payload file completes: with the
\* file written, or with an error that left the file as it was or cut
\* short.  server.ts then calls saveOrder, which runs up to its first await.
WritePayload(r, outcome) ==
  /\ req[r].pc = "payloadWrite"
  /\ LET q == req[r]
         f == [type |-> q.type, ts |-> q.ts]
         busy == {o \in Reqs \ {r} : req[o].pc \in SaveOrderPcs}
     IN  /\ payloads' =
              IF outcome = "written"
              THEN [payloads EXCEPT ![f] = JSONstringifyPretty(q.payload)]
              ELSE IF outcome = "truncated"
              THEN [payloads EXCEPT ![f] = Truncated]
              ELSE payloads
         /\ req' =
              IF outcome # "written"
              THEN [req EXCEPT ![r] = Respond([q EXCEPT !.pwrote = "failed"], 200)]
              ELSE IF program = "part_000"
              THEN [req EXCEPT ![r] = Respond([q EXCEPT !.pwrote = "written"], 200)]
              ELSE [o \in Reqs |->
                      IF o = r
                      THEN [q EXCEPT !.pwrote = "written", !.pc = "access",
                                     !.overlap = (busy # {})]
                      ELSE IF o \in busy
                      THEN [req[o] EXCEPT !.overlap = TRUE]
                      ELSE req[o]]
  /\ UNCHANGED <<admin, program, env, now, orders, orders0>>

\* a saveOrder that creates a record only for an order-created webhook
saveOrder_access_createdOnly(r) ==
  /\ req[r].pc = "access"
  /\ LET f == OrderFile(req[r].payload.number)
     IN  req' = [req EXCEPT ![r] =
           IF orders[f] # Absent THEN [@ EXCEPT !.pc = "readFile"]
           ELSE IF req[r].type = "order-created"
           THEN [@ EXCEPT !.pc = "writeFileOpen"]
           ELSE Respond([@ EXCEPT !.saved = "skipped"], 200)]
  /\ UNCHANGED <<admin, program, env, now, payloads, orders, orders0>>

\* saveOrder: fsPromises.access completes
saveOrder_access(r) ==
  /\ req[r].pc = "access"
  /\ LET f == OrderFile(req[r].payload.number)
     IN  req' = [req EXCEPT ![r].pc =
                   IF orders[f] = Absent THEN "writeFileOpen" ELSE "readFile"]
  /\ UNCHANGED <<admin, program, env, now, payloads, orders, orders0>>

\* saveOrder: fsPromises.readFile completes (or fails), then the parse and
\* the comparison of the dates
saveOrder_readFile(r, readOk) ==
  /\ req[r].pc = "readFile"
  /\ LET q == req[r]
         f == OrderFile(q.payload.number)
         stored == orders[f]
     IN  req' = [req EXCEPT ![r] =
           IF ~readOk THEN [q EXCEPT !.readErr = TRUE, !.pc = "writeFileOpen"]
           ELSE IF SkipsUpdate(q.payload, stored)
           THEN Respond([q EXCEPT !.saved = "skipped"], 200)
           ELSE [q EXCEPT !.pc = "writeFileOpen"]]
  /\ UNCHANGED <<admin, program, env, now, payloads, orders, orders0>>

\* a writeFile that replaces the order file by removing it first
saveOrder_writeFileOpen_unlink(r, ok) ==
  /\ req[r].pc = "writeFileOpen"
  /\ LET q == req[r]
         f == OrderFile(q.payload.number)
     IN  /\ orders' = IF ok THEN [orders EXCEPT ![f] = Absent] ELSE orders
         /\ req' = [req EXCEPT ![r] =
              IF ok THEN [q EXCEPT !.pc = "writeFileData"]
              ELSE Respond([q EXCEPT !.saved = "failed"], 200)]
  /\ UNCHANGED <<admin, program, env, now, payloads, orders0>>

\* saveOrder: writeFileAsync opens the order file, which truncates it
saveOrder_writeFileOpen(r, ok) ==
  /\ req[r].pc = "writeFileOpen"
  /\ LET q == req[r]
         f == OrderFile(q.payload.number)
     IN  /\ orders' = IF ok THEN [orders EXCEPT ![f] = Truncated] ELSE orders
         /\ req' = [req EXCEPT ![r] =
              IF ok THEN [q EXCEPT !.pc = "writeFileData"]
              ELSE Respond([q EXCEPT !.saved = "failed"], 200)]
  /\ UNCHANGED <<admin, program, env, now, payloads, orders0>>

\* a saveOrder whose write error reaches the error middleware
saveOrder_writeFileData_rethrow(r, ok) ==
  /\ req[r].pc = "writeFileData"
  /\ LET q == req[r]
         f == OrderFile(q.payload.number)
     IN  /\ orders' =
              IF ok THEN [orders EXCEPT ![f] = JSONstringifyPretty(q.payload)]
              ELSE orders
         /\ req' = [req EXCEPT ![r] =
              IF ok THEN Respond([q EXCEPT !.saved = "written"], 200)
              ELSE Respond([q EXCEPT !.saved = "failed"], 500)]
  /\ UNCHANGED <<admin, program, env, now, payloads, orders0>>

\* saveOrder: writeFileAsync writes the text and completes; saveOrder
\* returns and the handler sends its response
saveOrder_writeFileData(r, ok) ==
  /\ req[r].pc = "writeFileData"
  /\ LET q == req[r]
         f == OrderFile(q.payload.number)
     IN  /\ orders' =
              IF ok THEN [orders EXCEPT ![f] = JSONstringifyPretty(q.payload)]
              ELSE orders
         /\ req' = [req EXCEPT ![r] =
              Respond([q EXCEPT !.saved = IF ok THEN "written" ELSE "failed"],
                      200)]
  /\ UNCHANGED <<admin, program, env, now, payloads, orders0>>

(***************************************************************************)
(* The admin and info endpoints.  A GET handler awaits access and then     *)
(* readFile; no file is ever removed, so the response is the one of a      *)
(* handler that does both at the instant of the read.  fault is what the   *)
(* file system does to the request: "ok", "noaccess" (access rejects an    *)
(* existing entry) or "readfail" (readFile or readdir rejects).            *)
(***************************************************************************)
Faults == {"ok", "noaccess", "readfail"}

\* what a path holds: the text of a payload file, a directory, or nothing
Directory == Text(Undefined, "directory")
PayloadsEntry(p) ==
  IF p.names = <<>> THEN Directory
  ELSE IF p.up = 0 /\ \E f \in PayloadFiles :
                        p.names = <<PayloadName(f.type, f.ts)>>
  THEN payloads[CHOOSE f \in PayloadFiles :
                  p.names = <<PayloadName(f.type, f.ts)>>]
  ELSE Absent

\* bodies of the responses that carry no stored data
ErrorBody == Text(Undefined, "error")
HtmlBody(v) == Text(v, "html")

\* GET /
GetRoot ==
  /\ program = "server.ts"
  /\ admin' = AdminResponse("/", <<>>, "ok", 200, "json",
                            JSONstringify(EmptyObj), NoPath)
  /\ UNCHANGED <<program, env, now, payloads, orders, orders0, req>>

\* a payload endpoint that fails on a file that does not parse
GetPayloadResponse_strict(filename, fault) ==
  LET p == PathJoin(filename)
      content == PayloadsEntry(p)
      R(status, ctype, body, path) ==
        AdminResponse("/admin/payloads/:filename", filename, fault, status,
                      ctype, body, path)
  IN  IF GuardRejects(filename) THEN R(400, "json", ErrorBody, NoPath)
      ELSE IF content = Absent \/ fault = "noaccess"
      THEN R(404, "json", ErrorBody, p)
      ELSE IF content = Directory \/ fault = "readfail"
      THEN R(500, "json", ErrorBody, p)
      ELSE IF Parses(content)
      THEN R(200, "json", JSONstringify(JSONparse(content)), p)
      ELSE R(500, "json", ErrorBody, p)

\* GET /admin/payloads/:filename (lines 1266-1301)
GetPayloadResponse(filename, fault) ==
  LET p == PathJoin(filename)
      content == PayloadsEntry(p)
      R(status, ctype, body, path) ==
        AdminResponse("/admin/payloads/:filename", filename, fault, status,
                      ctype, body, path)
  IN  IF GuardRejects(filename) THEN R(400, "json", ErrorBody, NoPath)
      ELSE IF content = Absent \/ fault = "noaccess"
      THEN R(404, "json", ErrorBody, p)
      ELSE IF content = Directory \/ fault = "readfail"
      THEN R(500, "json", ErrorBody, p)
      ELSE IF Parses(content)
      THEN R(200, "json", JSONstringify(JSONparse(content)), p)
      ELSE R(200, "text", content, p)

GetPayload(filename, fault) ==
  /\ program = "server.ts"
  /\ admin' = GetPayloadResponse(filename, fault)
  /\ UNCHANGED <<program, env, now, payloads, orders, orders0, req>>

\* GET /admin/payloads/view/:filename (lines 1304-1527)
GetPayloadView(filename, fault) ==
  /\ program = "server.ts"
  /\ LET p == PathJoin(filename)
         content == PayloadsEntry(p)
         R(status, body, path) ==
           AdminResponse("/admin/payloads/view/:filename", filename, fault,
                         status, "html", body, path)
     IN  admin' =
           IF GuardRejects(filename) THEN R(400, ErrorBody, NoPath)
           ELSE IF content = Absent \/ fault = "noaccess"
           THEN R(404, ErrorBody, p)
           ELSE IF content = Directory \/ fault = "readfail"
           THEN R(500, ErrorBody, p)
           ELSE IF Parses(content) THEN R(200, HtmlBody(JSONparse(content)), p)
           ELSE R(400, ErrorBody, p)
  /\ UNCHANGED <<program, env, now, payloads, orders, orders0, req>>

\* GET /admin/payloads (lines 1075-1263): readdir, then stat of every file
GetPayloads(fault) ==
  /\ program = "server.ts"
  /\ admin' =
       IF fault = "readfail"
       THEN AdminResponse("/admin/payloads", <<>>, fault, 500, "html",
                          ErrorBody, Path(0, <<>>))
       ELSE AdminResponse("/admin/payloads", <<>>, fault, 200, "html",
                          HtmlBody(Undefined), Path(0, <<>>))
  /\ UNCHANGED <<program, env, now, payloads, orders, orders0, req>>

\* the order numbers asked for: those of the order files and one more
OrderParams == OrderFiles \cup {"9999"}
\* the text of `order_${orderNumber}.json`
OrdersEntry(n) == IF n \in OrderFiles THEN orders[n] ELSE Absent

\* GET /admin/orders/:orderNumber (lines 641-1072)
GetOrderResponse(n, fault) ==
  LET content == OrdersEntry(n)
      R(status, body) ==
        AdminResponse("/admin/orders/:orderNumber", <<n>>, fault, status,
                      "html", body, NoPath)
  IN  IF content = Absent \/ fault = "noaccess" THEN R(404, ErrorBody)
      ELSE IF fault = "readfail" THEN R(500, ErrorBody)
      \* JSON.parse throws, or the template reads a field of undefined
      ELSE IF ~Parses(content) THEN R(500, ErrorBody)
      ELSE IF ~Renders(JSONparse(content)) THEN R(500, ErrorBody)
      ELSE R(200, HtmlBody(JSONparse(content)))

\* an order endpoint that removes an order file it cannot parse
GetOrder_cleanup(n, fault) ==
  /\ program = "server.ts"
  /\ admin' = GetOrderResponse(n, fault)
  /\ orders' =
       IF n \in OrderFiles /\ orders[n] # Absent /\ ~Parses(orders[n])
       THEN [orders EXCEPT ![n] = Absent] ELSE orders
  /\ UNCHANGED <<program, env, now, payloads, orders0, req>>

GetOrder(n, fault) ==
  /\ program = "server.ts"
  /\ admin' = GetOrderResponse(n, fault)
  /\ UNCHANGED <<program, env, now, payloads, orders, orders0, req>>

\* files of the orders directory that saveOrder did not name
StrayFiles == {"notes.json", "order_old.bak"}
\* the name of a file of the orders directory, as tokens
FileName(f) ==
  IF f = "notes.json" THEN <<"x", ".json">>
  ELSE IF f = "order_old.bak" THEN <<"order_", "x", ".bak">>
  ELSE <<"order_", f, ".json">>
\* filename.startsWith('order_') && filename.endsWith('.json')
IsOrderFile(name) == name[1] = "order_" /\ name[Len(name)] = ".json"

\* an order list that leaves out the records it cannot show
GetOrdersResponse_lenient(fault) ==
  LET files == {f \in DOMAIN orders : orders[f] # Absent}
      matching == {f \in files : IsOrderFile(FileName(f))}
      good == {f \in matching : Parses(orders[f])
                                  /\ Renders(JSONparse(orders[f]))}
  IN  [AdminResponse("/admin/orders", <<>>, fault, 200, "html",
                     HtmlBody(Undefined), NoPath) EXCEPT !.listed = good]

\* GET /admin/orders (lines 355-637): readdir, then every file named
\* order_*.json is read, parsed and summarised inside one Promise.all; one
\* failure fails the whole list
GetOrdersResponse(fault) ==
  LET files == {f \in DOMAIN orders : orders[f] # Absent}
      matching == {f \in files : IsOrderFile(FileName(f))}
      bad == {f \in matching : ~Parses(orders[f])
                                 \/ ~Renders(JSONparse(orders[f]))}
  IN  IF fault = "readfail" \/ bad # {}
      THEN AdminResponse("/admin/orders", <<>>, fault, 500, "html",
                         ErrorBody, NoPath)
      ELSE [AdminResponse("/admin/orders", <<>>, fault, 200, "html",
                          HtmlBody(Undefined), NoPath)
              EXCEPT !.listed = matching]

GetOrders(fault) ==
  /\ program = "server.ts"
  /\ admin' = GetOrdersResponse(fault)
  /\ UNCHANGED <<program, env, now, payloads, orders, orders0, req>>

\* the steps of a request after its arrival
Step(r) ==
  \/ \E outcome \in {"written", "unchanged", "truncated"} :
       WritePayload(r, outcome)
  \/ saveOrder_access(r)
  \/ \E readOk \in BOOLEAN : saveOrder_readFile(r, readOk)
  \/ \E ok \in BOOLEAN : saveOrder_writeFileOpen(r, ok)
  \/ \E ok \in BOOLEAN : saveOrder_writeFileData(r, ok)

\* the order bodies WooCommerce delivers: every version of order 1001 on
\* either route, one version of order 1002 on the created route and a body
\* that is not an order on the updated route
DeliveredValues(t) ==
  {Order("1001", d) : d \in DateStrings}
  \cup (IF t = "order-created" THEN {Order("1002", 1)} ELSE {EmptyObj})

\* signed deliveries of these bodies
Deliveries ==
  UNION {{[type |-> t, raw |-> JSONstringify(v)] : v \in DeliveredValues(t)} :
           t \in WebhookTypes}

Next ==
  \/ \E r \in Reqs, d \in Deliveries, ms \in 0..MaxClock :
       Webhook(r, ms, d.type, Hmac("s1", d.raw), d.raw,
               [ok |-> TRUE, body |-> JSONparse(d.raw)])
  \/ \E r \in Reqs : Step(r)

Spec == Init /\ [][Next]_vars

(***************************************************************************)
(* The verifier on one request: either revision, any configuration, and    *)
(* a request whose body and signature header are those of a sender that    *)
(* signed a body with its key, the body received being the signed one or   *)
(* the signed one with one bit changed.                                    *)
(***************************************************************************)
VerifyBodies ==
  {EmptyRaw, Garbage, JSONstringify(EmptyObj),
   Text(Order("1001", 1), "canon"), Text(Order("1001", 1), "alt"),
   Text(Order("1001", 2), "canon")}

SenderKeys == {"s1", DefaultSecret}

VerifySignatures(raw) ==
  {NoSig, EmptySig}
  \cup {Hmac(k, m) : k \in SenderKeys,
                     m \in {b \in VerifyBodies : b = raw \/ OneBit(b, raw)}}

NextVerify ==
  \/ \E t \in WebhookTypes, raw \in VerifyBodies :
       \E s \in VerifySignatures(raw), out \in ExpressJson(raw) :
         Webhook("r1", now, t, s, raw, out)
  \/ \E t \in WebhookTypes, raw \in VerifyBodies :
       \E s \in VerifySignatures(raw), out \in ExpressJson(raw) :
         Webhook_part_000("r1", now, t, s, raw, out)
  \/ Step("r1")

SpecVerify == InitVerify /\ [][NextVerify]_vars

(***************************************************************************)
(* The dashboard beside the receiver: server.ts in production              *)
(* configuration takes two deliveries, and one GET request is served at    *)
(* any moment of their processing.  A GET changes nothing but the response *)
(* it gives, so the behaviours end with it.                                *)
(***************************************************************************)
AdminDeliveries ==
  {[type |-> "order-created", raw |-> JSONstringify(Order("1001", d))] :
     d \in {1, 2}}
  \cup {[type |-> "order-updated", raw |-> JSONstringify(EmptyObj)]}

\* the names of the payload files and the name of no file
AdminFilenames ==
  {PayloadName(f.type, f.ts) : f \in PayloadFiles} \cup {<<"x">>}

InitAdmin ==
  /\ program = "server.ts"
  /\ env = ProductionEnv
  /\ now = 0
  /\ payloads = [f \in PayloadFiles |-> Absent]
  /\ orders = [f \in OrderFiles |-> Absent]
  /\ orders0 = orders
  /\ req = [r \in Reqs |-> IdleReq]
  /\ admin = NoAdmin

NextAdmin ==
  \/ /\ admin = NoAdmin
     /\ \E r \in Reqs, d \in AdminDeliveries, ms \in 0..MaxClock :
          Webhook(r, ms, d.type, Hmac("s1", d.raw), d.raw,
                  [ok |-> TRUE, body |-> JSONparse(d.raw)])
  \/ /\ admin = NoAdmin
     /\ \E r \in Reqs : Step(r)
  \/ admin = NoAdmin /\ GetRoot
  \/ admin = NoAdmin /\ \E fault \in Faults : GetOrders(fault)
  \/ /\ admin = NoAdmin
     /\ \E n \in OrderParams, fault \in Faults : GetOrder(n, fault)
  \/ admin = NoAdmin /\ \E fault \in Faults : GetPayloads(fault)
  \/ /\ admin = NoAdmin
     /\ \E filename \in AdminFilenames, fault \in Faults :
          GetPayload(filename, fault)
  \/ /\ admin = NoAdmin
     /\ \E filename \in AdminFilenames, fault \in Faults :
          GetPayloadView(filename, fault)

SpecAdmin == InitAdmin /\ [][NextAdmin]_vars

(***************************************************************************)
(* The payload endpoints on one request with any file name parameter, on   *)
(* a payloads directory that is empty or holds one payload file, whole or  *)
(* cut short.                                                              *)
(***************************************************************************)
Filenames ==
  UNION {[1..n -> Chars] : n \in 1..MaxLen}
  \cup {PayloadName(f.type, f.ts) : f \in PayloadFiles}

InitPaths ==
  /\ program = "server.ts"
  /\ env = ProductionEnv
  /\ now = 0
  /\ \E t \in {Absent, Truncated, JSONstringifyPretty(Order("1001", 1))} :
       payloads = [f \in PayloadFiles |->
                     IF f = [type |-> "order-created", ts |-> 0]
                     THEN t ELSE Absent]
  /\ orders = [f \in OrderFiles |-> Absent]
  /\ orders0 = orders
  /\ req = [r \in Reqs |-> IdleReq]
  /\ admin = NoAdmin

NextPaths ==
  \/ /\ admin = NoAdmin
     /\ \E filename \in Filenames, fault \in Faults :
          GetPayload(filename, fault)
  \/ /\ admin = NoAdmin
     /\ \E filename \in Filenames, fault \in Faults :
          GetPayloadView(filename, fault)

SpecPaths == InitPaths /\ [][NextPaths]_vars

(***************************************************************************)
(* The order list: server.ts in production configuration takes two         *)
(* deliveries and serves one GET /admin/orders, on an orders directory     *)
(* that may also hold files saveOrder did not name.                        *)
(***************************************************************************)
ListDeliveries ==
  {[type |-> "order-created", raw |-> JSONstringify(Order("1001", 1))],
   [type |-> "order-created", raw |-> JSONstringify(Order("1002", 1))],
   [type |-> "order-updated", raw |-> JSONstringify(EmptyObj)]}

InitList ==
  /\ program = "server.ts"
  /\ env = ProductionEnv
  /\ now = 0
  /\ payloads = [f \in PayloadFiles |-> Absent]
  /\ \E present \in SUBSET StrayFiles :
       orders = [f \in OrderFiles \cup StrayFiles |->
                   IF f \in present THEN Garbage ELSE Absent]
  /\ orders0 = orders
  /\ req = [r \in Reqs |-> IdleReq]
  /\ admin = NoAdmin

NextList ==
  \/ /\ admin = NoAdmin
     /\ \E r \in Reqs, d \in ListDeliveries, ms \in 0..MaxClock :
          Webhook(r, ms, d.type, Hmac("s1", d.raw), d.raw,
                  [ok |-> TRUE, body |-> JSONparse(d.raw)])
  \/ /\ admin = NoAdmin
     /\ \E r \in Reqs : Step(r)
  \/ admin = NoAdmin /\ \E fault \in Faults : GetOrders(fault)

SpecList == InitList /\ [][NextList]_vars

(***************************************************************************)
(* The order store under order numbers of any shape: server.ts in          *)
(* production configuration takes two deliveries among a new version of    *)
(* order 1001, an order 1002 and an order whose number holds path          *)
(* separators, on a store that is empty or holds order 1001.               *)
(***************************************************************************)
NumberDeliveries ==
  {[type |-> "order-created", raw |-> JSONstringify(Order("1002", 1))],
   [type |-> "order-updated", raw |-> JSONstringify(Order("1001", 2))],
   [type |-> "order-updated", raw |-> JSONstringify(Order(TraversalNumber, 3))]}

InitNumbers ==
  /\ program = "server.ts"
  /\ env = ProductionEnv
  /\ now = 0
  /\ payloads = [f \in PayloadFiles |-> Absent]
  /\ \E t \in {Absent, JSONstringifyPretty(Order("1001", 1))} :
       orders = [f \in OrderFiles |-> IF f = "1001" THEN t ELSE Absent]
  /\ orders0 = orders
  /\ req = [r \in Reqs |-> IdleReq]
  /\ admin = NoAdmin

NextNumbers ==
  \/ \E r \in Reqs, d \in NumberDeliveries, ms \in 0..MaxClock :
       Webhook(r, ms, d.type, Hmac("s1", d.raw), d.raw,
               [ok |-> TRUE, body |-> JSONparse(d.raw)])
  \/ \E r \in Reqs : Step(r)

SpecNumbers == InitNumbers /\ [][NextNumbers]_vars

(***************************************************************************)
(* Properties of the order upsert (checked under Spec).                    *)
(***************************************************************************)
Done(r) == req[r].pc = "done"
\* saveOrder was called for the request
CalledSaveOrder(r) == program = "server.ts" /\ req[r].pwrote = "written"
\* the instant of the request's date_modified
Instant(r) == DateParse(req[r].payload.date_modified)
\* the order file of the request
FileOf(r) == OrderFile(req[r].payload.number)
\* the instant of the record a text holds, NaN when it holds none
StoredInstant(t) ==
  IF Parses(t) THEN DateParse(JSONparse(t).date_modified) ELSE NaN
\* a > b on Date objects
DateGT(a, b) == a # NaN /\ b # NaN /\ a > b
\* a file operation of the request's saveOrder call failed
Faulted(r) == req[r].readErr \/ req[r].saved = "failed"

\* r and o carried versions t1 < t2 of one order, their saveOrder calls ran
\* one after the other and both have returned, and the store held no newer
\* record of that order at start-up
SerialPair(r, o) ==
  /\ r # o /\ Done(r) /\ Done(o)
  /\ CalledSaveOrder(r) /\ CalledSaveOrder(o)
  /\ req[r].payload.number \in Numbers
  /\ req[r].payload.number = req[o].payload.number
  /\ DateGT(Instant(o), Instant(r))
  /\ ~req[r].overlap /\ ~req[o].overlap
  /\ ~DateGT(StoredInstant(orders0[FileOf(o)]), Instant(o))

C2_OverwriteOnlyIfNewer ==
  [][\A r \in Reqs :
       (/\ req[r].pc = "writeFileOpen" /\ req'[r].pc = "writeFileData"
        /\ Parses(orders[FileOf(r)]))
       => DateGT(Instant(r), StoredInstant(orders[FileOf(r)]))]_vars

\* the older version t1 of an order is what the file holds although the
\* newer version t2 was delivered and written without error
LostUpdate(r, o) ==
  /\ r # o /\ Done(r) /\ Done(o)
  /\ CalledSaveOrder(r) /\ CalledSaveOrder(o)
  /\ req[r].payload.number \in Numbers
  /\ req[r].payload.number = req[o].payload.number
  /\ DateGT(Instant(o), Instant(r))
  /\ ~Faulted(r) /\ ~Faulted(o)
  /\ req[o].saved = "written"
  /\ orders[FileOf(r)] = JSONstringifyPretty(req[r].payload)

\* C3: a lost update is reachable, and only through two saveOrder calls
\* for the same order number that ran concurrently
C3_LostUpdateOnlyByRace ==
  \A r \in Reqs, o \in Reqs :
    LostUpdate(r, o) => (req[r].overlap /\ req[o].overlap)

\* C3 witness: a lost update on a store that held no record of the order
C3_Witness ==
  \E r \in Reqs, o \in Reqs :
    /\ LostUpdate(r, o) /\ req[r].overlap /\ req[o].overlap
    /\ orders0[FileOf(r)] = Absent

(***************************************************************************)
(* Properties of the signature middleware (checked under SpecVerify).      *)
(***************************************************************************)
\* the signature middleware ran on the request
Validated(r) == req[r].mw # NoMw
\* the middleware called next(): the request reached the handler
ReachedHandler(r) == req[r].mw.act = "next"
\* the environment variable that holds the secret of the request's type
EnvSecret(r) ==
  IF req[r].type = "order-created"
  THEN env.WC_ORDER_CREATED_SECRET ELSE env.WC_ORDER_UPDATED_SECRET
\* the secret the running revision uses for the request's type
SecretOf(r) ==
  IF program = "server.ts"
  THEN WEBHOOK_SECRETS(env)[req[r].type]
  ELSE WEBHOOK_SECRETS_part_000(env)[req[r].type]
\* verification is bypassed for the request
Bypassed(r) ==
  \/ program = "server.ts" /\ SKIP_SIGNATURE_VALIDATION(env)
  \/ SecretOf(r) = ""
\* the payload file of the request
PayloadFileOf(r) == [type |-> req[r].type, ts |-> req[r].ts]

\* C4 as stated: a request without signature header is rejected with 401
\* and never reaches the handler, under every configuration
C4_MissingAlwaysRejected ==
  \A r \in Reqs :
    (Validated(r) /\ req[r].sig = NoSig) =>
       (req[r].status = 401 /\ ~ReachedHandler(r))

\* C4 amended: a request with a missing or empty signature header is
\* rejected with 401 and never reaches the handler when verification is not
\* bypassed; under a bypass (SKIP_SIGNATURE_VALIDATION = 'true' in
\* server.ts, an empty secret in part_000) it is passed to the handler
C4_MissingRejectedUnlessBypassed ==
  \A r \in Reqs :
    (Validated(r) /\ SignatureMissing(req[r].sig)) =>
       IF Bypassed(r)
       THEN ReachedHandler(r)
       ELSE /\ Done(r) /\ req[r].status = 401 /\ req[r].responses = 1
            /\ ~ReachedHandler(r)
            /\ req[r].pwrote = "none" /\ req[r].saved = "none"

\* C4 witness: a request without header was rejected with 401
C4_Witness ==
  \E r \in Reqs :
    /\ Validated(r) /\ req[r].sig = NoSig /\ ~Bypassed(r)
    /\ req[r].status = 401

\* server.ts compared the header of the request with a digest and the two
\* differ
Mismatching(r) ==
  /\ program = "server.ts" /\ Validated(r)
  /\ ~SKIP_SIGNATURE_VALIDATION(env)
  /\ req[r].sig.kind = "mac"
  /\ RawBodyAvailable(req[r].rawBody) \/ req[r].body # Undefined
  /\ req[r].sig # Hmac(WEBHOOK_SECRETS(env)[req[r].type], DigestInput(req[r]))

C6_NoSecretBypasses ==
  \A r \in Reqs :
    (Validated(r) /\ EnvSecret(r) \in {Unset, ""}) => ReachedHandler(r)

\* C7 as stated: a request whose signature header is the digest of its body
\* under the configured secret is accepted
C7_CorrectSignatureAccepted ==
  \A r \in Reqs :
    (/\ Validated(r) /\ SecretOf(r) # ""
     /\ req[r].sig = Hmac(SecretOf(r), req[r].rawBody))
    => ReachedHandler(r)

\* the running revision rejects requests that fail verification
Enforcing(r) == program = "part_000" /\ SecretOf(r) # ""

\* C8 as stated: under enforcement, a body that differs in one bit from the
\* signed body is rejected when sent with the signature of the signed body
C8_MutatedBodyRejected ==
  \A r \in Reqs :
    (/\ Validated(r) /\ Enforcing(r)
     /\ req[r].sig.kind = "mac" /\ req[r].sig.key = SecretOf(r)
     /\ OneBit(req[r].sig.msg, req[r].rawBody))
    => ~ReachedHandler(r)

\* C9 as stated: the digest server.ts compares with the header is computed
\* over the raw body of the request
C9_DigestOverRawBody ==
  \A r \in Reqs :
    (program = "server.ts" /\ Validated(r) /\ req[r].mw.calc # NoSig) =>
       req[r].mw.calc.msg = req[r].rawBody

(***************************************************************************)
(* Acknowledgement (checked under SpecLive: two concurrent deliveries of   *)
(* versions of order 1001, or of an empty request, to server.ts; every     *)
(* file operation a request waits for completes, with or without error).   *)
(***************************************************************************)
LiveDeliveries ==
  {[type |-> t, raw |-> JSONstringify(Order("1001", d)),
    body |-> Order("1001", d)] : t \in WebhookTypes, d \in {1, 2}}
  \cup {[type |-> t, raw |-> EmptyRaw, body |-> Undefined] :
          t \in WebhookTypes}

\* server.ts in production configuration, started on an orders directory
\* without order 1001, with its first version or with a file cut short
InitLive ==
  /\ program = "server.ts"
  /\ env = ProductionEnv
  /\ now = 0
  /\ payloads = [f \in PayloadFiles |-> Absent]
  /\ \E t \in {Absent, Truncated, JSONstringifyPretty(Order("1001", 1))} :
       orders = [f \in OrderFiles |-> IF f = "1001" THEN t ELSE Absent]
  /\ orders0 = orders
  /\ req = [r \in Reqs |-> IdleReq]
  /\ admin = NoAdmin

NextLive ==
  \/ \E r \in Reqs, d \in LiveDeliveries, ms \in 0..MaxClock :
       Webhook(r, ms, d.type, Hmac("s1", d.raw), d.raw,
               [ok |-> TRUE, body |-> d.body])
  \/ \E r \in Reqs : Step(r)

SpecLive ==
  InitLive /\ [][NextLive]_vars /\ \A r \in Reqs : WF_vars(Step(r))

\* C10: a request that reached the handler has no response until it is
\* done, is done eventually, and then has exactly one response, a 200
C10_AlwaysAcknowledged ==
  \A r \in Reqs :
    /\ [](ReachedHandler(r) =>
            IF Done(r)
            THEN req[r].status = 200 /\ req[r].responses = 1
            ELSE req[r].responses = 0)
    /\ ReachedHandler(r) ~> Done(r)

\* C10 witness: a request whose order file write failed was answered 200
C10_Witness ==
  \E r \in Reqs :
    /\ ReachedHandler(r) /\ Done(r) /\ req[r].saved = "failed"
    /\ req[r].status = 200 /\ req[r].responses = 1

(***************************************************************************)
(* Properties of the two stores and of the admin endpoints (C11, C13, C16, *)
(* C19 and C20 under SpecAdmin, C12 and C17 under SpecPaths, C14 and C15   *)
(* under Spec, C18 under SpecVerify).                                      *)
(***************************************************************************)
PayloadRoutes == {"/admin/payloads/:filename", "/admin/payloads/view/:filename"}
\* the step is the serving of a GET request
GetStep == admin' # admin
\* the payload file name of the request
PayloadNameOf(r) == PayloadName(req[r].type, req[r].ts)

\* C11 as stated: a payload file that exists is never changed by a later
\* step, and a webhook whose payload write succeeds creates a file that did
\* not exist
C11_AppendOnly ==
  [][/\ \A f \in PayloadFiles :
          payloads[f] # Absent => payloads'[f] = payloads[f]
     /\ \A r \in Reqs :
          (req[r].pc = "payloadWrite" /\ req'[r].pwrote = "written") =>
             /\ payloads[PayloadFileOf(r)] = Absent
             /\ payloads'[PayloadFileOf(r)] =
                  JSONstringifyPretty(req[r].payload)]_vars

\* C12 as stated: the two payload endpoints answer 400 to every file name
\* containing '../' or '..\', and for every other file name the path they
\* access and read lies inside the payloads directory
C12_NoAccessOutside ==
  admin.route \in PayloadRoutes =>
    IF GuardRejects(admin.param)
    THEN admin.status = 400 /\ admin.path = NoPath
    ELSE admin.path # NoPath /\ ~Outside(admin.path)

\* C13 as stated: once the payload file of a webhook is written, a GET of
\* /admin/payloads/<its name> that meets no file system fault answers 200
\* with the JSON value of the webhook's payload
C13_RoundTrip ==
  [][\A r \in Reqs :
       (/\ req[r].pwrote = "written"
        /\ GetStep /\ admin'.route = "/admin/payloads/:filename"
        /\ admin'.param = PayloadNameOf(r) /\ admin'.fault = "ok")
       => /\ admin'.status = 200 /\ admin'.ctype = "json"
          /\ admin'.body = JSONstringify(req[r].payload)]_vars

\* r and o carried the same order, their saveOrder calls ran one after the
\* other without a failing file operation and both have returned
SerialSame(r, o) ==
  /\ r # o /\ Done(r) /\ Done(o)
  /\ CalledSaveOrder(r) /\ CalledSaveOrder(o)
  /\ req[r].payload.number \in Numbers
  /\ req[r].payload = req[o].payload
  /\ ~req[r].overlap /\ ~req[o].overlap
  /\ ~Faulted(r) /\ ~Faulted(o)

\* C14 as stated: of two saveOrder calls in sequence with the same order,
\* the second performs no write
C14_Idempotent ==
  \A r \in Reqs, o \in Reqs :
    SerialSame(r, o) =>
      ~(req[r].saved = "written" /\ req[o].saved = "written")

\* every delivery so far was processed alone and without a failing file
\* operation, and none is being processed
SerialQuiet ==
  \A r \in Reqs :
    /\ req[r].pc \in {"idle", "done"}
    /\ ~req[r].overlap /\ ~Faulted(r) /\ req[r].pwrote # "failed"

\* C15 as stated: over deliveries processed one at a time the date_modified
\* of the stored record of an order never decreases
C15_NeverDecreases ==
  \A f \in OrderFiles :
    SerialQuiet =>
      ~DateGT(StoredInstant(orders0[f]), StoredInstant(orders[f]))

\* C16: an order file or a payload file that exists is there in every later
\* state, whatever webhook step or GET request comes next
C16_NeverDeleted ==
  [][/\ \A f \in OrderFiles : orders[f] # Absent => orders'[f] # Absent
     /\ \A f \in PayloadFiles :
          payloads[f] # Absent => payloads'[f] # Absent]_vars

\* C16 witness: order 1001 was absent, was created by one delivery and
\* updated by the next, and a GET request has been served
C16_Witness ==
  \E r \in Reqs, o \in Reqs :
    /\ r # o /\ req[r].saved = "written" /\ req[o].saved = "written"
    /\ DateGT(Instant(o), Instant(r))
    /\ orders0[FileOf(r)] = Absent /\ FileOf(r) = FileOf(o)
    /\ orders[FileOf(o)] = JSONstringifyPretty(req[o].payload)
    /\ admin.route # "none"

\* C17 as stated: GET /admin/payloads/:filename answers 404 when the file
\* does not exist or cannot be read, 200 with the parsed JSON when the
\* content parses and 200 with the raw text when it does not
C17_NotFoundOrContent ==
  [][(/\ GetStep /\ admin'.route = "/admin/payloads/:filename"
      /\ ~GuardRejects(admin'.param))
     => LET content == PayloadsEntry(PathJoin(admin'.param))
        IN  IF content = Absent \/ admin'.fault # "ok"
            THEN admin'.status = 404
            ELSE IF Parses(content)
            THEN /\ admin'.status = 200 /\ admin'.ctype = "json"
                 /\ admin'.body = JSONstringify(JSONparse(content))
            ELSE /\ admin'.status = 200 /\ admin'.ctype = "text"
                 /\ admin'.body = content]_vars

\* C17 amended: for a file name that passes the guard the endpoint answers
\* 404 when the path does not exist or access rejects it, 500 when the path
\* is a directory or readFile rejects, 200 with the parsed JSON when the
\* content parses and 200 with the raw text when it does not
C17_PayloadResponses ==
  [][(/\ GetStep /\ admin'.route = "/admin/payloads/:filename"
      /\ ~GuardRejects(admin'.param))
     => LET content == PayloadsEntry(PathJoin(admin'.param))
        IN  IF content = Absent \/ admin'.fault = "noaccess"
            THEN admin'.status = 404
            ELSE IF content = Directory \/ admin'.fault = "readfail"
            THEN admin'.status = 500
            ELSE IF Parses(content)
            THEN /\ admin'.status = 200 /\ admin'.ctype = "json"
                 /\ admin'.body = JSONstringify(JSONparse(content))
            ELSE /\ admin'.status = 200 /\ admin'.ctype = "text"
                 /\ admin'.body = content]_vars

\* C17 witness: a payload file cut short was served as raw text
C17_Witness ==
  /\ admin.route = "/admin/payloads/:filename"
  /\ admin.status = 200 /\ admin.ctype = "text" /\ admin.body = Truncated

\* C18: a request that reaches the handler with neither a parsed body nor a
\* raw body is answered 200, once, and no payload file and no order file is
\* written for it
C18_NoPayloadAcknowledged ==
  \A r \in Reqs :
    (/\ Validated(r) /\ ReachedHandler(r)
     /\ req[r].body = Undefined /\ ~RawBodyAvailable(req[r].rawBody))
    => /\ Done(r) /\ req[r].status = 200 /\ req[r].responses = 1
       /\ req[r].pwrote = "none" /\ req[r].saved = "none"
       /\ \A f \in PayloadFiles : payloads[f] = Absent
       /\ orders = orders0

\* C18 witness: server.ts answered 200 to a signed request without body
C18_Witness ==
  \E r \in Reqs :
    /\ program = "server.ts" /\ ReachedHandler(r)
    /\ req[r].sig.kind = "mac"
    /\ req[r].body = Undefined /\ req[r].rawBody = EmptyRaw
    /\ Done(r) /\ req[r].status = 200

\* C19: the serving of a GET request leaves every payload file and every
\* order file as it was
C19_GetReadOnly ==
  [][GetStep => (payloads' = payloads /\ orders' = orders)]_vars

\* C19 witness: a GET of an order whose file was cut short at that moment
\* was answered 500, and the file is still there
C19_Witness ==
  /\ admin.route = "/admin/orders/:orderNumber" /\ admin.param = <<"1001">>
  /\ admin.status = 500 /\ orders["1001"] = Truncated

\* C20 as stated: GET /admin/orders/:orderNumber, when the file system
\* raises no fault, answers 404 if the order file does not exist and
\* otherwise renders the record the file holds
C20_OrderDetail ==
  [][(/\ GetStep /\ admin'.route = "/admin/orders/:orderNumber"
      /\ admin'.fault = "ok")
     => LET content == OrdersEntry(admin'.param[1])
        IN  IF content = Absent THEN admin'.status = 404
            ELSE /\ admin'.status = 200 /\ Parses(content)
                 /\ admin'.body = HtmlBody(JSONparse(content))]_vars

(***************************************************************************)
(* Properties of the ingestion pipeline (C21, C22 and C27 under            *)
(* SpecVerify, C23 and C24 under SpecLive).                                *)
(***************************************************************************)
\* C21: a request the signature middleware rejects with 401 gets that one
\* response, never reaches the handler, writes no payload file and changes
\* no order file
C21_RejectedNeverStored ==
  \A r \in Reqs :
    (Validated(r) /\ req[r].mw.act = "401") =>
       /\ Done(r) /\ req[r].status = 401 /\ req[r].responses = 1
       /\ ~ReachedHandler(r)
       /\ req[r].pwrote = "none" /\ req[r].saved = "none"
       /\ \A f \in PayloadFiles : payloads[f] = Absent
       /\ orders = orders0

\* C21 witness: server.ts rejected a request that carried an order, and
\* the stores are as they were
C21_Witness ==
  \E r \in Reqs :
    /\ program = "server.ts" /\ Validated(r) /\ req[r].mw.act = "401"
    /\ req[r].body \in Orders /\ req[r].status = 401
    /\ orders = orders0

\* C22 as stated: on every request it handles the middleware either calls
\* next() or sends a 401, one of the two and once
C22_NextOr401 ==
  \A r \in Reqs : Validated(r) => req[r].mw.act \in {"next", "401"}

\* C22 amended: on every request it handles the middleware either calls
\* next() or sends one response, 401 or (in the catch block of part_000)
\* 500; a request it answered has that response and no other, a request it
\* passed on has no response but the handler's
C22_NextOrResponse ==
  \A r \in Reqs :
    Validated(r) =>
      /\ req[r].mw.act \in {"next", "401", "500"}
      /\ req[r].mw.act = "500" =>
           program = "part_000" /\ req[r].mw.branch = "error"
      /\ req[r].mw.act \in {"401", "500"} =>
           /\ Done(r) /\ req[r].responses = 1
           /\ req[r].status = (IF req[r].mw.act = "401" THEN 401 ELSE 500)
           /\ req[r].pwrote = "none"
      /\ req[r].mw.act = "next" =>
           IF Done(r) THEN req[r].status = 200 /\ req[r].responses = 1
           ELSE req[r].responses = 0

\* C22 witness: the catch block of part_000 answered 500
C22_Witness ==
  \E r \in Reqs :
    /\ program = "part_000" /\ Validated(r) /\ req[r].mw.act = "500"
    /\ req[r].status = 500 /\ req[r].responses = 1

\* C23: saveOrder runs for a request only after its payload file was
\* written; a request whose payload write failed is answered without
\* saveOrder, and no step of a request whose payload file is not written
\* changes an order file
C23_UpsertAfterPayload ==
  /\ [](\A r \in Reqs :
          /\ (req[r].pc \in SaveOrderPcs \/ req[r].saved # "none"
              \/ req[r].readErr) => req[r].pwrote = "written"
          /\ req[r].pwrote = "failed" =>
               Done(r) /\ req[r].saved = "none" /\ ~req[r].readErr)
  /\ [][\A r \in Reqs :
          (req'[r] # req[r] /\ req'[r].pwrote # "written") =>
             orders' = orders]_vars

\* C23 witness: a request whose payload write failed, leaving the file cut
\* short, was answered 200 without saveOrder
C23_Witness ==
  \E r \in Reqs :
    /\ Done(r) /\ req[r].pwrote = "failed" /\ req[r].saved = "none"
    /\ req[r].payload.number = "1001" /\ req[r].status = 200
    /\ payloads[PayloadFileOf(r)] = Truncated

\* C24: a request has a response only when it is done, and a request
\* answered 200 that had a payload has its payload write finished and, when
\* that write succeeded, its saveOrder call finished
C24_AckAfterWrites ==
  \A r \in Reqs :
    /\ req[r].responses > 0 => Done(r)
    /\ (Done(r) /\ req[r].status = 200 /\ req[r].payload # Undefined) =>
         /\ req[r].pwrote \in {"written", "failed"}
         /\ req[r].pwrote = "written" =>
              req[r].saved \in {"written", "skipped", "failed"}

\* C24 witness: a request was answered 200 after its payload file was
\* written and saveOrder skipped its order
C24_Witness ==
  \E r \in Reqs :
    /\ Done(r) /\ req[r].status = 200 /\ req[r].responses = 1
    /\ req[r].pwrote = "written" /\ req[r].saved = "skipped"

\* C27: with SKIP_SIGNATURE_VALIDATION = 'true' the middleware of server.ts
\* hands every request it processes to the handler without computing or
\* comparing a digest, whatever the secret and the signature header; with
\* any other value of the flag the bypass branch is never taken
C27_BypassFlag ==
  \A r \in Reqs :
    Validated(r) =>
      /\ (program = "server.ts" /\ env.SKIP_SIGNATURE_VALIDATION = "true")
           => /\ req[r].mw = MwResult("next", "skip", NoSig, FALSE)
              /\ req[r].status # 401
              /\ Done(r) => req[r].status = 200 /\ req[r].responses = 1
      /\ env.SKIP_SIGNATURE_VALIDATION # "true" => req[r].mw.branch # "skip"

\* C27 witness: under the flag a request without a signature header, for a
\* type whose secret is configured, was handled and its payload stored
C27_Witness ==
  \E r \in Reqs :
    /\ program = "server.ts" /\ env.SKIP_SIGNATURE_VALIDATION = "true"
    /\ EnvSecret(r) = "s1" /\ req[r].sig = NoSig
    /\ req[r].mw.branch = "skip"
    /\ Done(r) /\ req[r].status = 200 /\ req[r].pwrote = "written"

(***************************************************************************)
(* Properties of the order store (C25 under SpecNumbers, C26 and C28       *)
(* under Spec) and of the order list (C29 under SpecList).                 *)
(***************************************************************************)
\* C25 as stated: a write of saveOrder for an order number leaves the
\* record of every other order number unchanged
C25_OwnRecord ==
  [][\A r \in Reqs :
       (req[r].pc \in {"writeFileOpen", "writeFileData"}
        /\ req'[r].pc # req[r].pc)
       => \A B \in Numbers :
            B # req[r].payload.number =>
              orders'[OrderFile(B)] = orders[OrderFile(B)]]_vars

\* C26: when the existing order file cannot be read or parsed, or the
\* incoming or the stored date_modified is missing or invalid, saveOrder
\* does not skip: it goes on to write the incoming order
C26_OverwriteWhenUndecidable ==
  [][\A r \in Reqs :
       (req[r].pc = "readFile" /\ req'[r].pc # "readFile")
       => LET stored == orders[FileOf(r)]
          IN  (\/ req'[r].readErr
               \/ ~Parses(stored)
               \/ Instant(r) = NaN
               \/ StoredInstant(stored) = NaN)
              => /\ req'[r].pc = "writeFileOpen"
                 /\ req'[r].saved = "none"
                 /\ req'[r].responses = 0]_vars

\* C26 witness: an order without date_modified has replaced a stored record
\* that carries a valid date
C26_Witness ==
  \E r \in Reqs :
    /\ Done(r) /\ req[r].saved = "written" /\ ~req[r].readErr
    /\ Instant(r) = NaN
    /\ StoredInstant(orders0[FileOf(r)]) # NaN
    /\ orders[FileOf(r)] = JSONstringifyPretty(req[r].payload)
    /\ \A o \in Reqs \ {r} : req[o].pc = "idle"

\* C28: saveOrder treats both webhook types alike: an order-updated
\* webhook for a number without a stored record goes on to create it, and
\* an order-created webhook for a number with a record that was read is
\* skipped exactly when its date_modified is not later than the stored one
C28_EitherEndpointUpserts ==
  [][\A r \in Reqs :
       LET stored == orders[FileOf(r)]
       IN  /\ (req[r].pc = "access" /\ req'[r].pc # "access")
                => /\ req'[r].pc =
                        IF stored = Absent THEN "writeFileOpen" ELSE "readFile"
                   /\ req'[r].saved = "none"
           /\ (req[r].pc = "readFile" /\ req'[r].pc # "readFile"
               /\ ~req'[r].readErr)
                => IF Parses(stored)
                      /\ DateLE(Instant(r), StoredInstant(stored))
                   THEN Done(r)' /\ req'[r].saved = "skipped"
                        /\ orders' = orders
                   ELSE req'[r].pc = "writeFileOpen"]_vars

\* C28 witness: an order-updated webhook created the record of its number
\* and an order-created webhook for the same number was then skipped
C28_Witness ==
  \E r, o \in Reqs :
    /\ req[r].type = "order-updated" /\ req[o].type = "order-created"
    /\ FileOf(r) = FileOf(o)
    /\ orders0[FileOf(r)] = Absent
    /\ Done(r) /\ req[r].saved = "written"
    /\ Done(o) /\ req[o].saved = "skipped"
    /\ orders[FileOf(r)] = JSONstringifyPretty(req[r].payload)

\* C29: GET /admin/orders answers 500, listing nothing, when a file named
\* order_*.json cannot be read, parsed or rendered; a 200 lists every file
\* named order_*.json, and the other files of the directory change neither
\* the status nor the list
C29_ListAllOrFail ==
  [][(GetStep /\ admin'.route = "/admin/orders")
     => LET orderFiles == {f \in OrderFiles : orders[f] # Absent}
            shown == {f \in orderFiles :
                        Parses(orders[f]) /\ Renders(JSONparse(orders[f]))}
        IN  /\ admin'.status \in {200, 500}
            /\ admin'.status = 500
                 <=> (admin'.fault = "readfail" \/ shown # orderFiles)
            /\ admin'.status = 500 => admin'.listed = {}
            /\ admin'.status = 200 => admin'.listed = orderFiles
            /\ admin'.listed \cap StrayFiles = {}]_vars

\* C29 witness: the list failed on the record of a webhook without billing
\* or line_items while a complete record and another file were present
C29_Witness ==
  /\ admin.route = "/admin/orders" /\ admin.fault = "ok"
  /\ admin.status = 500 /\ admin.listed = {}
  /\ Parses(orders["1001"]) /\ Renders(JSONparse(orders["1001"]))
  /\ Parses(orders["undefined"]) /\ ~Renders(JSONparse(orders["undefined"]))
  /\ orders["notes.json"] = Garbage

====
